---- MODULE Spec2Model ----
(***************************************************************************)
(* A model of the bassil lexer (src/src/cpp/lexer.cpp).  One call of       *)
(* lex(inputString) is a state machine: every iteration of the while loop  *)
(* of lex is one step, the clean-up and return after the loop is one step, *)
(* and exit(1) inside parse_string is a step that ends the process.        *)
(*                                                                         *)
(* Strings are sequences of one-character strings.  The cursor i is the    *)
(* 0-based index of the C++ code, so inputString[i] is input[i + 1].       *)
(***************************************************************************)
EXTENDS Integers, Sequences, FiniteSets, TLC

(***************************************************************************)
(* Bounds of the model.                                                    *)
(***************************************************************************)
\* Longest input enumerated exhaustively over Alphabet.
MaxLen == 4

\* The loop of lex that never advances i increments `line' on every
\* iteration; the model follows it up to this value.  A run that advances i
\* on every iteration never has line > Len(input) + 1.
MaxLine == MaxLen + 3

\* Longest file text enumerated for the renderer.
MaxFileLen == 3

\* Largest start and end column passed to reportError.
MaxColumn == 3

\* Most reportError calls in one process.
MaxCalls == 2

\* Longest text after the first four lines of the input file of
\* startMainProccess.
MainTailLen == 3

\* Longest string passed to split_string.
MaxSplitLen == 4

\* Longest text passed to wrapText.
MaxWrapLen == 4

\* Largest lineLength passed to wrapText.
MaxLineLength == 3

(***************************************************************************)
(* Characters and inputs.                                                  *)
(***************************************************************************)
SPACE == " "
NEWLINE == "\n"
SEMI == ";"
QUOTE == "\""
BACKSLASH == "\\"

\* isdigit of <cctype> (C locale).
Digits == {"0", "1", "2", "3", "4", "5", "6", "7", "8", "9"}

isdigit(c) == c \in Digits

\* One character of every class lex distinguishes: a character that is none
\* of the others ("x"), a digit, space, newline, semicolon, double quote,
\* backslash.
Alphabet == {"x", "5", SPACE, NEWLINE, SEMI, QUOTE, BACKSLASH}

RECURSIVE StringsOfLen(_)
StringsOfLen(n) ==
    IF n = 0 THEN {<<>>}
    ELSE {Append(s, c) : s \in StringsOfLen(n - 1), c \in Alphabet}

\* The inputs that the testable properties of the specification name, and
\* longer inputs with string literals (an escape, two literals).
NamedInputs ==
    { <<"x", " ", "=", " ", "5", ";">>,
      <<"=", "=", " ", "=">>,
      <<"3", ".", "1", ".", "4">>,
      <<"\"", "a", "b", "c">>,
      <<"x", " ", "\"", "a", "b", "c">>,
      <<"x", " ", "\"", "\\", "\"", "\"", ";">>,
      <<"x", " ", "\"", "a", "\"", " ", "\"", "b", "\"">> }

Inputs == UNION {StringsOfLen(n) : n \in 0..MaxLen} \cup NamedInputs

(***************************************************************************)
(* State.                                                                  *)
(***************************************************************************)
VARIABLES
    input,          \* inputString, the argument of lex
    pc,             \* "lex": in the while loop; "returned": lex has returned
                    \* to its caller; "exited": exit(1) has ended the process;
                    \* "off": lex is not called in this run
    i,              \* size_t i, the cursor (0-based)
    line,           \* int line
    column,         \* int column
    commandFound,   \* bool commandFound
    command,        \* std::vector<Token> command
    created,        \* history: every token pushed onto command, in order
    saved,          \* history: the vectors passed to save_command, in order
    freed,          \* history: indices in `created' of the tokens whose
                    \* value lex has passed to free
    returned        \* the vector lex returned (<<>> until it returns)

\* The state of the diagnostic renderer (error_report.cpp) and of the
\* console and the file it uses.  In a run of lex these keep their initial
\* values.
VARIABLES
    rpc,            \* "idle": no renderer in this run; "report": the process
                    \* calls reportError; "read": the process calls
                    \* readLineFromFile on `stream'; "exited": exit(1) has
                    \* ended the process; "main", "main_report",
                    \* "main_read", "main_lex": where startMainProccess is;
                    \* "returned0", "returned1": it has returned 0 or 1
    content,        \* the text of the file at filePath
    canOpen,        \* whether std::fstream file(filePath) opens the file
    console,        \* the output device: modeOK / setOK: GetConsoleMode /
                    \* SetConsoleMode succeed; vt: the mode has
                    \* ENABLE_VIRTUAL_TERMINAL_PROCESSING
    stream,         \* a std::fstream on the file that a caller holds and
                    \* passes to readLineFromFile
    calls,          \* history: the number of reportError calls so far
    attempts,       \* history: the number of enableAnsiInConsole calls so far
    notices,        \* history: how often the "ANSI is not enabled" notice
                    \* has been written to std::cout
    last            \* history: the latest call, its arguments and its outcome

reportVars == <<rpc, content, canOpen, console, stream, calls, attempts, notices, last>>

VARIABLES
    util            \* a call of one of the string utilities of utils.cpp: its
                    \* name (op), arguments, locals and result; op is
                    \* "none" in a run without such a call

utilVars == <<util>>

vars == <<input, pc, i, line, column, commandFound, command, created, saved,
          freed, returned, reportVars, utilVars>>

(***************************************************************************)
(* Tokens.                                                                 *)
(***************************************************************************)
Token(type, value, ln, start_column, end_column) ==
    [type |-> type, value |-> value, line |-> ln,
     start_column |-> start_column, end_column |-> end_column]

(***************************************************************************)
(* The scanning helpers.  Each takes the 0-based position and the string   *)
(* and gives the position the C++ function leaves in *pos.                 *)
(***************************************************************************)
IsDelimiter(c) == c = SPACE \/ c = NEWLINE \/ c = SEMI

RECURSIVE parse_command(_, _)
parse_command(pos, str) ==
    IF pos < Len(str) /\ ~IsDelimiter(str[pos + 1])
    THEN parse_command(pos + 1, str)
    ELSE pos

RECURSIVE parse_argument(_, _)
parse_argument(pos, str) ==
    IF pos < Len(str) /\ ~IsDelimiter(str[pos + 1])
    THEN parse_argument(pos + 1, str)
    ELSE pos

RECURSIVE parse_integer(_, _)
parse_integer(pos, str) ==
    IF pos < Len(str) /\ isdigit(str[pos + 1])
    THEN parse_integer(pos + 1, str)
    ELSE pos

\* The for loop of parse_string: a backslash adds one to pos before the
\* loop's own increment, so the result can be Len(str) + 1.
RECURSIVE parse_string_scan(_, _)
parse_string_scan(pos, str) ==
    IF pos < Len(str) /\ str[pos + 1] # QUOTE
    THEN parse_string_scan((IF str[pos + 1] = BACKSLASH THEN pos + 1 ELSE pos) + 1, str)
    ELSE pos

\* The test after the loop of parse_string: TRUE when it calls exit(1).
parse_string_exits(pos, str) ==
    LET p == parse_string_scan(pos, str)
    IN  IF p >= Len(str) THEN TRUE ELSE str[p + 1] # QUOTE

\* std::string::substr(start, n) for 0-based start.
substr(str, start, n) == SubSeq(str, start + 1, start + n)

(***************************************************************************)
(* The file stream of readLineFromFile (utils.cpp 1146-1191).  A stream is *)
(* a record of is_open, the read position pos (0-based) and the state bits *)
(* eofbit and failbit; the text of the file is passed beside it.  The      *)
(* member functions follow [istream.unformatted] of the C++ standard: each *)
(* constructs a sentry, which sets failbit when the stream is not good().  *)
(***************************************************************************)
Stream(is_open, pos, eofbit, failbit) ==
    [is_open |-> is_open, pos |-> pos, eofbit |-> eofbit, failbit |-> failbit]

good(s) == ~s.eofbit /\ ~s.failbit
fail(s) == s.failbit
eof(s) == s.eofbit

\* The sentry of an input function: a stream that is not good() gets failbit.
sentry(s) == IF good(s) THEN s ELSE [s EXCEPT !.failbit = TRUE]

\* file.clear()
clear(s) == [s EXCEPT !.eofbit = FALSE, !.failbit = FALSE]

\* file.tellg(): the position, or -1 when fail() is set after the sentry.
tellg_pos(s) == IF fail(sentry(s)) THEN -1 ELSE s.pos
tellg_stream(s) == sentry(s)

\* seekg that goes to the beginning of the file whatever position is asked.
seekgBeginning(s, p, text) ==
    LET s1 == sentry([s EXCEPT !.eofbit = FALSE])
    IN  IF fail(s1) THEN s1 ELSE [s1 EXCEPT !.pos = 0]

\* file.seekg(p): eofbit is cleared first; a stream with failbit is left
\* where it is; a position outside the file sets failbit.
seekg(s, p, text) ==
    LET s1 == sentry([s EXCEPT !.eofbit = FALSE])
    IN  IF fail(s1) THEN s1
        ELSE IF p \in 0..Len(text) THEN [s1 EXCEPT !.pos = p]
        ELSE [s1 EXCEPT !.failbit = TRUE]

\* The position of the first newline of text at or after index k (1-based),
\* or Len(text) + 1 when there is none.
RECURSIVE NextNewline(_, _)
NextNewline(text, k) ==
    IF k > Len(text) THEN Len(text) + 1
    ELSE IF text[k] = NEWLINE THEN k
    ELSE NextNewline(text, k + 1)

\* std::getline(file, line) (utils.cpp 1175): when the sentry fails the line
\* is left as it was; otherwise the line is erased and characters are
\* extracted up to a newline, which is extracted and dropped, or up to the
\* end of the file, which sets eofbit; no character extracted sets failbit.
getline(s, str, text) ==
    LET s1 == sentry(s)
    IN  IF fail(s1) THEN [stream |-> s1, line |-> str]
        ELSE LET n == NextNewline(text, s.pos + 1)
             IN  IF n > Len(text)
                 THEN [stream |-> [s1 EXCEPT !.pos = Len(text), !.eofbit = TRUE,
                                             !.failbit = (s.pos = Len(text))],
                       line |-> SubSeq(text, s.pos + 1, Len(text))]
                 ELSE [stream |-> [s1 EXCEPT !.pos = n],
                       line |-> SubSeq(text, s.pos + 1, n - 1)]

\* What a call of readLineFromFile gives: how it ends ("ok" for a return,
\* else the exception thrown), the line returned and the stream afterwards.
ReadResult(result, str, s) == [result |-> result, line |-> str, stream |-> s]

\* The for loop of utils.cpp 1165-1184 from the iteration currentLine on,
\* and the restore and return of 1186-1190.
RECURSIVE readLineLoop(_, _, _, _, _, _)
readLineLoop(s, str, currentLine, lineNum, originalPos, text) ==
    IF ~(currentLine <= lineNum)
    THEN ReadResult("ok", str, seekg(clear(s), originalPos, text))
    ELSE IF eof(s)
    THEN ReadResult("out_of_range", <<>>, seekg(clear(s), originalPos, text))
    ELSE LET g == getline(s, str, text)
         IN  IF fail(g.stream) /\ ~eof(g.stream)
             THEN ReadResult("runtime_error", <<>>,
                             seekg(clear(g.stream), originalPos, text))
             ELSE readLineLoop(g.stream, g.line, currentLine + 1, lineNum,
                               originalPos, text)

\* Utils::readLineFromFile(file, lineNum) on a file with the given text.
readLineFromFile(s, lineNum, text) ==
    IF ~s.is_open THEN ReadResult("runtime_error", <<>>, s)
    ELSE IF lineNum = 0 THEN ReadResult("invalid_argument", <<>>, s)
    ELSE LET originalPos == tellg_pos(s)
             s1 == seekg(tellg_stream(s), 0, text)
         IN  readLineLoop(s1, <<>>, 1, lineNum, originalPos, text)

(***************************************************************************)
(* Text output.  What is written to std::cout is a sequence of characters; *)
(* ESC stands for the escape character '\033'.                             *)
(***************************************************************************)
ESC == "ESC"

DigitChars == <<"0", "1", "2", "3", "4", "5", "6", "7", "8", "9">>

\* std::to_string(n) and operator<<(int), for n >= 0.
RECURSIVE to_string(_)
to_string(n) ==
    IF n < 10 THEN <<DigitChars[n + 1]>>
    ELSE to_string(n \div 10) \o <<DigitChars[(n % 10) + 1]>>

\* n copies of the character c: std::string(n, c).
RECURSIVE Fill(_, _)
Fill(n, c) == IF n <= 0 THEN <<>> ELSE <<c>> \o Fill(n - 1, c)

HexChars ==
    <<"0", "1", "2", "3", "4", "5", "6", "7", "8", "9", "a", "b", "c", "d", "e", "f">>

UpperHexChars == <<"A", "B", "C", "D", "E", "F">>

IsHexChar(c) ==
    (\E k \in 1..16 : HexChars[k] = c) \/ (\E k \in 1..6 : UpperHexChars[k] = c)

HexValue(c) ==
    IF \E k \in 1..16 : HexChars[k] = c
    THEN (CHOOSE k \in 1..16 : HexChars[k] = c) - 1
    ELSE (CHOOSE k \in 1..6 : UpperHexChars[k] = c) + 9

\* utils.cpp 705
InvalidColorCode ==
    <<"I", "n", "v", "a", "l", "i", "d", " ", "c", "o", "l", "o", "r", " ",
      "c", "o", "d", "e", "!">>

\* utils.cpp 712, after the escape character
ColorPrefix ==
    <<"[", "3", "8", ";", "2", ";">>

\* error_report.cpp 7
ColoredArrow ==
    <<"\n", " ", "-", "-", "-", ">", " ">>

\* error_report.cpp 7
ColoredFile ==
    <<"F", "i", "l", "e", ":", " ">>

\* error_report.cpp 8, 11, 12, 13
ColoredIndent ==
    <<"\n", "|", " ", " ", " ", " ">>

\* error_report.cpp 8
ErrorOnLine ==
    <<"E", "r", "r", "o", "r", " ", "o", "n", " ", "l", "i", "n", "e", ":",
      " ">>

\* error_report.cpp 9
StartColumnLabel ==
    <<"S", "t", "a", "r", "t", " ", "c", "o", "l", "u", "m", "n", ":", " ">>

\* error_report.cpp 10
EndColumnLabel ==
    <<"E", "n", "d", " ", "c", "o", "l", "u", "m", "n", ":", " ">>

\* error_report.cpp 8
ColorRed ==
    <<"#", "f", "c", "0", "3", "1", "3">>

\* error_report.cpp 9, 10
ColorOrange ==
    <<"#", "f", "f", "9", "7", "5", "2">>

\* error_report.cpp 11
ColorGreen ==
    <<"#", "a", "8", "f", "f", "9", "4">>

\* error_report.cpp 13
ColorBlue ==
    <<"#", "9", "4", "b", "0", "f", "f">>

\* error_report.cpp 17
PlainErrorInFile ==
    <<"E", "r", "r", "o", "r", " ", "i", "n", " ", "f", "i", "l", "e", ":",
      " ">>

\* error_report.cpp 18
PlainErrorOnLine ==
    <<"\n", "E", "r", "r", "o", "r", " ", "o", "n", " ", "l", "i", "n", "e",
      ":", " ">>

\* error_report.cpp 18
PlainStartColumn ==
    <<" ", "S", "t", "a", "r", "t", " ", "c", "o", "l", "u", "m", "n", ":",
      " ">>

\* error_report.cpp 18
PlainEndColumn ==
    <<" ", "E", "n", "d", " ", "c", "o", "l", "u", "m", "n", ":", " ">>

\* error_report.cpp 19, 20
PlainIndent ==
    <<"\n", " ", " ", " ", " ">>

\* The notice of error_report.cpp 44.
AnsiNotice ==
    <<"A", "N", "S", "I", " ", "i", "s", " ", "n", "o", "t", " ", "e", "n",
      "a", "b", "l", "e", "d", " ", "i", "n", " ", "c", "o", "n", "s", "o",
      "l", "e", ".", " ", "F", "o", "r", " ", "b", "e", "t", "t", "e", "r",
      " ", "a", "n", "d", " ", "m", "o", "r", "e", " ", "r", "e", "a", "d",
      "a", "b", "l", "e", " ", "e", "r", "r", "o", "r", " ", "m", "e", "s",
      "s", "a", "g", "e", "s", ",", " ", "p", "l", "e", "a", "s", "e", " ",
      "e", "n", "a", "b", "l", "e", " ", "A", "N", "S", "I", "!", "\n">>

\* Utils::isValidHexColor (utils.cpp 670-674): '#' and six hex digits.
isValidHexColor(colorCode) ==
    /\ Len(colorCode) = 7
    /\ colorCode[1] = "#"
    /\ \A k \in 2..7 : IsHexChar(colorCode[k])

\* std::stoi(colorCode.substr(k, 2), nullptr, 16) for 0-based k.
stoi16(colorCode, k) == 16 * HexValue(colorCode[k + 1]) + HexValue(colorCode[k + 2])

\* Utils::colorText (utils.cpp 701-713).
colorText(text, colorCode) ==
    IF ~isValidHexColor(colorCode) THEN InvalidColorCode
    ELSE <<ESC>> \o ColorPrefix \o to_string(stoi16(colorCode, 1)) \o <<";">>
         \o to_string(stoi16(colorCode, 3)) \o <<";">>
         \o to_string(stoi16(colorCode, 5)) \o <<"m">> \o text \o <<ESC, "[", "0", "m">>

\* Utils::boldText and Utils::italicText (utils.cpp 742-749, 779-786) when
\* isAnsiEnabledInConsole() holds; reportError calls them only then.
boldText(text) == <<ESC, "[", "1", "m">> \o text \o <<ESC, "[", "0", "m">>

italicText(text) == <<ESC, "[", "3", "m">> \o text \o <<ESC, "[", "0", "m">>

\* Underline with one caret more: endColumn - startColumn + 1 carets.
UnderlineInclusive(startColumn, endColumn) ==
    Fill(startColumn - 1, " ") \o Fill(endColumn - startColumn + 1, "^")

\* The underline of error_report.cpp 12 and 20:
\* std::string(startColumn - 1, ' ') << std::string(endColumn - startColumn, '^').
Underline(startColumn, endColumn) ==
    Fill(startColumn - 1, " ") \o Fill(endColumn - startColumn, "^")

\* printColoredError (error_report.cpp 6-14): what it writes to std::cout.
printColoredError(filePath, lineNumber, startColumn, endColumn, srcLine, msg) ==
    ColoredArrow \o boldText(ColoredFile) \o italicText(filePath)
    \o <<":">> \o to_string(lineNumber) \o <<":">> \o to_string(startColumn)
    \o ColoredIndent \o boldText(colorText(ErrorOnLine, ColorRed))
    \o boldText(to_string(lineNumber))
    \o <<" ">> \o colorText(boldText(StartColumnLabel), ColorOrange)
    \o boldText(to_string(startColumn))
    \o <<" ">> \o colorText(boldText(EndColumnLabel), ColorOrange)
    \o boldText(to_string(endColumn))
    \o ColoredIndent \o colorText(srcLine, ColorGreen)
    \o ColoredIndent \o Underline(startColumn, endColumn)
    \o ColoredIndent \o ColoredIndent \o colorText(msg, ColorBlue) \o <<"\n", "\n">>

\* printPlainError with the message written before the source line.
printPlainErrorMessageFirst(filePath, lineNumber, startColumn, endColumn, srcLine, msg) ==
    PlainErrorInFile \o filePath
    \o <<":">> \o to_string(lineNumber) \o <<":">> \o to_string(startColumn)
    \o PlainErrorOnLine \o to_string(lineNumber)
    \o PlainStartColumn \o to_string(startColumn)
    \o PlainEndColumn \o to_string(endColumn)
    \o <<"\n">> \o msg
    \o PlainIndent \o srcLine
    \o PlainIndent \o Underline(startColumn, endColumn)
    \o <<"\n", "\n", "\n">>

\* printPlainError (error_report.cpp 16-22): what it writes to std::cout.
printPlainError(filePath, lineNumber, startColumn, endColumn, srcLine, msg) ==
    PlainErrorInFile \o filePath
    \o <<":">> \o to_string(lineNumber) \o <<":">> \o to_string(startColumn)
    \o PlainErrorOnLine \o to_string(lineNumber)
    \o PlainStartColumn \o to_string(startColumn)
    \o PlainEndColumn \o to_string(endColumn)
    \o PlainIndent \o srcLine
    \o PlainIndent \o Underline(startColumn, endColumn)
    \o <<"\n", "\n">> \o msg \o <<"\n">>

\* No utility is called in this run.
UtilIdle == util = [op |-> "none"]

\* The record of `last' when nothing has been called.
NoCall ==
    [op |-> "none", lineNumber |-> 0, startColumn |-> 0, endColumn |-> 0,
     result |-> "none", line |-> <<>>, layout |-> "none", out |-> <<>>,
     notice |-> <<>>, err |-> FALSE, entry |-> Stream(FALSE, 0, FALSE, FALSE)]

\* The renderer variables in a run of lex.
ReportIdle ==
    /\ rpc = "idle"
    /\ content = <<>>
    /\ canOpen = FALSE
    /\ console = [modeOK |-> FALSE, setOK |-> FALSE, vt |-> FALSE]
    /\ stream = Stream(FALSE, 0, FALSE, FALSE)
    /\ calls = 0
    /\ attempts = 0
    /\ notices = 0
    /\ last = NoCall

(***************************************************************************)
(* Initial state: lex has been called and is about to test the loop        *)
(* condition for the first time (lexer.cpp 145-149).                       *)
(***************************************************************************)
Init ==
    /\ input \in Inputs
    /\ pc = "lex"
    /\ i = 0
    /\ line = 1
    /\ column = 1
    /\ commandFound = FALSE
    /\ command = <<>>
    /\ created = <<>>
    /\ saved = <<>>
    /\ freed = {}
    /\ returned = <<>>
    /\ ReportIdle
    /\ UtilIdle

(***************************************************************************)
(* Which branch of the loop body the next iteration takes (lexer.cpp       *)
(* 153-273).  "space_after_command" (198-202) and "newline" (221-232) can  *)
(* never be taken: the test of line 163 has already consumed every space   *)
(* and newline.  DeadBranches below states this and is checked.            *)
(***************************************************************************)
Branch ==
    IF ~(i < Len(input)) THEN "exit"
    ELSE LET c == input[i + 1]
         IN  IF c = SPACE \/ c = NEWLINE THEN "whitespace"
             ELSE IF ~commandFound
                  THEN (IF isdigit(c) THEN "first_integer" ELSE "command")
             ELSE IF c = SPACE THEN "space_after_command"
             ELSE IF c = SEMI THEN "semicolon"
             ELSE IF c = NEWLINE THEN "newline"
             ELSE IF c = QUOTE THEN "string"
             ELSE IF isdigit(c) THEN "integer"
             ELSE "argument"

\* EndColumn with the "- 1" left out: the end_column is the column after the
\* token's last character.
EndColumnOnePastEnd(col, n) == col + n

\* The end_column of a token of n characters that starts at column col
\* (lexer.cpp 180, 186, 257, 267: column + (int)(i - start) - 1).
EndColumn(col, n) == col + n - 1

\* lexer.cpp 163-172: a space or a newline is consumed, no token.
Whitespace ==
    /\ pc = "lex"
    /\ Branch = "whitespace"
    /\ IF input[i + 1] = NEWLINE
       THEN line' = line + 1 /\ column' = 1
       ELSE line' = line /\ column' = column + 1
    /\ i' = i + 1
    /\ UNCHANGED <<input, pc, commandFound, command, created, saved, freed, returned,
                 reportVars, utilVars>>

\* lexer.cpp 174-181 and 191-194: no command yet and a digit: an Integer
\* token; commandFound stays false; line is incremented.
DetectInteger ==
    /\ pc = "lex"
    /\ Branch = "first_integer"
    /\ LET start == i
           start_column == column
           ni == parse_integer(i, input)
           token == Token("TK_Integer", substr(input, start, ni - start), line,
                          start_column, EndColumn(column, ni - start))
       IN  /\ command' = Append(command, token)
           /\ created' = Append(created, token)
           /\ i' = ni
           /\ column' = column + (ni - start)
    /\ line' = line + 1
    /\ UNCHANGED <<input, pc, commandFound, saved, freed, returned,
                 reportVars, utilVars>>

\* lexer.cpp 174-176 and 182-194: no command yet and no digit: the command
\* name runs to the next space, newline or semicolon.  When the character at
\* i is a semicolon the name is empty: no token, i and column keep their
\* values, line is incremented and the loop continues at the same i.
DetectCommand ==
    /\ pc = "lex"
    /\ Branch = "command"
    /\ line < MaxLine
    /\ LET start == i
           start_column == column
           ni == parse_command(i, input)
           commandName == substr(input, start, ni - start)
           cmdToken == Token("TK_Identifier", commandName, line, start_column,
                             EndColumn(column, ni - start))
       IN  /\ IF commandName # <<>>
              THEN /\ command' = Append(command, cmdToken)
                   /\ created' = Append(created, cmdToken)
                   /\ commandFound' = TRUE
              ELSE UNCHANGED <<command, created, commandFound>>
           /\ i' = ni
           /\ column' = column + (ni - start)
    /\ line' = line + 1
    /\ UNCHANGED <<input, pc, saved, freed, returned,
                 reportVars, utilVars>>

\* The step after the switch with the command cleared but not passed to
\* save_command.
AfterSwitchWithoutSave(ni, ncolumn, ncommand, ncommandFound, nsaved) ==
    IF ncommandFound /\ (IF ni >= Len(input) THEN TRUE
                          ELSE input[ni + 1] = SEMI \/ input[ni + 1] = NEWLINE)
    THEN /\ saved' = nsaved
         /\ command' = <<>>
         /\ commandFound' = FALSE
         /\ IF ni < Len(input)
            THEN /\ i' = ni + 1
                 /\ IF input[ni + 1] = NEWLINE
                    THEN line' = line + 1 /\ column' = 1
                    ELSE line' = line /\ column' = ncolumn + 1
            ELSE /\ i' = ni
                 /\ line' = line
                 /\ column' = ncolumn
    ELSE /\ saved' = nsaved
         /\ command' = ncommand
         /\ commandFound' = ncommandFound
         /\ i' = ni
         /\ line' = line
         /\ column' = ncolumn

\* lexer.cpp 275-293, run after every case of the switch: when a command is
\* open and the cursor is at the end, at a semicolon or at a newline, the
\* command is passed to save_command and cleared, and that semicolon or
\* newline is consumed without a token.
AfterSwitch(ni, ncolumn, ncommand, ncommandFound, nsaved) ==
    IF ncommandFound /\ (IF ni >= Len(input) THEN TRUE
                          ELSE input[ni + 1] = SEMI \/ input[ni + 1] = NEWLINE)
    THEN /\ saved' = Append(nsaved, ncommand)
         /\ command' = <<>>
         /\ commandFound' = FALSE
         /\ IF ni < Len(input)
            THEN /\ i' = ni + 1
                 /\ IF input[ni + 1] = NEWLINE
                    THEN line' = line + 1 /\ column' = 1
                    ELSE line' = line /\ column' = ncolumn + 1
            ELSE /\ i' = ni
                 /\ line' = line
                 /\ column' = ncolumn
    ELSE /\ saved' = nsaved
         /\ command' = ncommand
         /\ commandFound' = ncommandFound
         /\ i' = ni
         /\ line' = line
         /\ column' = ncolumn

\* lexer.cpp 205-219: a Semicolon token; the command is passed to
\* save_command and cleared.
SemicolonCase ==
    /\ pc = "lex"
    /\ Branch = "semicolon"
    /\ LET start_column == column
           token == Token("TK_Semicolon", substr(input, i, 1), line, start_column, column)
       IN  /\ created' = Append(created, token)
           /\ AfterSwitch(i + 1, column + 1, <<>>, FALSE, Append(saved, Append(command, token)))
    /\ UNCHANGED <<input, pc, freed, returned,
                 reportVars, utilVars>>

\* lexer.cpp 234-243 when parse_string returns: i is left ON the closing
\* quote, the value is the text between the quotes, column has been
\* incremented at 236 and is advanced by i - start at 241.
StringCase ==
    /\ pc = "lex"
    /\ Branch = "string"
    /\ ~parse_string_exits(i + 1, input)
    /\ LET start == i
           start_column == column
           ni == parse_string_scan(i + 1, input)
           column1 == column + 1
           token == Token("TK_String", substr(input, start + 1, ni - start - 1), line,
                          start_column, column1 + (ni - start) - 2)
       IN  /\ created' = Append(created, token)
           /\ AfterSwitch(ni, column1 + (ni - start), Append(command, token),
                          commandFound, saved)
    /\ UNCHANGED <<input, pc, freed, returned,
                 reportVars, utilVars>>

\* lexer.cpp 234-237 with parse_string 13-16: no closing quote: a log line,
\* then exit(1).  The process ends inside lex; nothing is returned, nothing
\* is thrown, save_command is not called.
StringAbort ==
    /\ pc = "lex"
    /\ Branch = "string"
    /\ parse_string_exits(i + 1, input)
    /\ pc' = "exited"
    /\ i' = parse_string_scan(i + 1, input)
    /\ column' = column + 1
    /\ UNCHANGED <<input, line, commandFound, command, created, saved, freed, returned,
                 reportVars, utilVars>>

\* lexer.cpp 245-261: an Integer token after the command.
IntegerCase ==
    /\ pc = "lex"
    /\ Branch = "integer"
    /\ LET start == i
           start_column == column
           ni == parse_integer(i, input)
           token == Token("TK_Integer", substr(input, start, ni - start), line,
                          start_column, EndColumn(column, ni - start))
       IN  /\ created' = Append(created, token)
           /\ AfterSwitch(ni, column + (ni - start), Append(command, token),
                          commandFound, saved)
    /\ UNCHANGED <<input, pc, freed, returned,
                 reportVars, utilVars>>

\* lexer.cpp 263-272: any other character starts an Argument token.
ArgumentCase ==
    /\ pc = "lex"
    /\ Branch = "argument"
    /\ LET start == i
           start_column == column
           ni == parse_argument(i, input)
           TheArgument == substr(input, start, ni - start)
           token == Token("TK_Argument", TheArgument, line, start_column,
                          EndColumn(column, ni - start))
           ncommand == IF TheArgument # <<>> THEN Append(command, token) ELSE command
       IN  /\ created' = IF TheArgument # <<>> THEN Append(created, token) ELSE created
           /\ AfterSwitch(ni, column + (ni - start), ncommand, commandFound, saved)
    /\ UNCHANGED <<input, pc, freed, returned,
                 reportVars, utilVars>>

\* The token types whose value lex frees (lexer.cpp 305-306).
FreedTypes ==
    {"TK_String", "TK_Identifier", "TK_Argument", "TK_Flag", "TK_Semicolon", "TK_Integer"}

\* lexer.cpp 296-314: the loop is over.  What is left in command is passed
\* to save_command, the value of each of its tokens is freed, and command is
\* returned.  command holds the last Len(command) tokens created.
Return ==
    /\ pc = "lex"
    /\ Branch = "exit"
    /\ saved' = IF command # <<>> THEN Append(saved, command) ELSE saved
    /\ freed' = freed \cup
                {Len(created) - Len(command) + k : k \in
                    {j \in 1..Len(command) : command[j].type \in FreedTypes}}
    /\ returned' = command
    /\ pc' = "returned"
    /\ UNCHANGED <<input, i, line, column, commandFound, command, created,
                 reportVars, utilVars>>

Next ==
    \/ Whitespace
    \/ DetectInteger
    \/ DetectCommand
    \/ SemicolonCase
    \/ StringCase
    \/ StringAbort
    \/ IntegerCase
    \/ ArgumentCase
    \/ Return

Spec == Init /\ [][Next]_vars

(***************************************************************************)
(* The diagnostic renderer: reportError (error_report.cpp 24-55) and       *)
(* readLineFromFile called on a stream the caller holds.                   *)
(***************************************************************************)
FileAlphabet == {"a", NEWLINE}

RECURSIVE FileTextsOfLen(_)
FileTextsOfLen(n) ==
    IF n = 0 THEN {<<>>}
    ELSE {Append(t, c) : t \in FileTextsOfLen(n - 1), c \in FileAlphabet}

FileTexts == UNION {FileTextsOfLen(n) : n \in 0..MaxFileLen}

\* The line numbers passed: 0, the lines of the file and two past the
\* longest file.
LineNumbers == 0..(MaxFileLen + 2)

Columns == 1..MaxColumn

\* The filePath and msg arguments of every reportError call of the model.
FilePath == <<"f">>

Message == <<"m">>

\* The lexer variables in a run of the renderer.
LexOff ==
    /\ input = <<>>
    /\ pc = "off"
    /\ i = 0
    /\ line = 1
    /\ column = 1
    /\ commandFound = FALSE
    /\ command = <<>>
    /\ created = <<>>
    /\ saved = <<>>
    /\ freed = {}
    /\ returned = <<>>

lexVars == <<input, pc, i, line, column, commandFound, command, created, saved,
             freed, returned>>

reportVarsButRpc == <<content, canOpen, console, stream, calls, attempts, notices, last>>

\* The streams a caller can hold on a file with the given text: not open, or
\* open at any position with any state bits (eofbit only at the end of the
\* file, where a read sets it).
CallerStreams(text) ==
    {Stream(FALSE, 0, FALSE, TRUE)}
    \cup {st \in {Stream(TRUE, p, e, f) : p \in 0..Len(text), e \in BOOLEAN, f \in BOOLEAN} :
              st.eofbit => st.pos = Len(text)}

\* std::fstream file(filePath) (error_report.cpp 31).
OpenedStream(ok) == IF ok THEN Stream(TRUE, 0, FALSE, FALSE) ELSE Stream(FALSE, 0, FALSE, TRUE)

Consoles ==
    {con \in [modeOK : BOOLEAN, setOK : BOOLEAN, vt : BOOLEAN] : con.vt => con.modeOK}

\* A process that calls reportError, or one that calls readLineFromFile.
ReportInit ==
    /\ LexOff
    /\ UtilIdle
    /\ content \in FileTexts
    /\ calls = 0
    /\ attempts = 0
    /\ notices = 0
    /\ last = NoCall
    /\ \/ /\ rpc = "report"
          /\ canOpen \in BOOLEAN
          /\ console \in Consoles
          /\ stream = Stream(FALSE, 0, FALSE, TRUE)
       \/ /\ rpc = "read"
          /\ canOpen = TRUE
          /\ console = [modeOK |-> FALSE, setOK |-> FALSE, vt |-> FALSE]
          /\ stream \in CallerStreams(content)

\* Utils::isAnsiEnabledInConsole (utils.cpp 636-645).
isAnsiEnabledInConsole(con) == con.modeOK /\ con.vt

\* Utils::enableAnsiInConsole (utils.cpp 594-609): the value returned.
enableAnsiInConsole(con) == IF con.modeOK /\ con.setOK THEN 0 ELSE 1

\* Utils::enableAnsiInConsole: the console afterwards.
ConsoleAfterEnable(con) ==
    IF con.modeOK /\ con.setOK THEN [con EXCEPT !.vt = TRUE] ELSE con

Call(op, lineNumber, startColumn, endColumn, result, srcLine, layout, out, notice, err, entry) ==
    [op |-> op, lineNumber |-> lineNumber, startColumn |-> startColumn,
     endColumn |-> endColumn, result |-> result, line |-> srcLine, layout |-> layout,
     out |-> out, notice |-> notice, err |-> err, entry |-> entry]

\* error_report.cpp 25-29: startColumn > endColumn: a line on std::cerr and
\* exit(1).
ReportBadSpan ==
    /\ rpc = "report"
    /\ calls < MaxCalls
    /\ \E lineNumber \in LineNumbers, startColumn \in Columns, endColumn \in Columns :
          /\ startColumn > endColumn
          /\ last' = Call("reportError", lineNumber, startColumn, endColumn, "exit",
                          <<>>, "none", <<>>, <<>>, TRUE, NoCall.entry)
    /\ rpc' = "exited"
    /\ calls' = calls + 1
    /\ UNCHANGED <<lexVars, utilVars, content, canOpen, console, stream, attempts, notices>>

\* error_report.cpp 31-40: readLineFromFile throws: a line on std::cerr and
\* exit(1).
ReportReadFailure ==
    /\ rpc = "report"
    /\ calls < MaxCalls
    /\ \E lineNumber \in LineNumbers, startColumn \in Columns, endColumn \in Columns :
          LET file == OpenedStream(canOpen)
              r == readLineFromFile(file, lineNumber, content)
          IN  /\ ~(startColumn > endColumn)
              /\ r.result # "ok"
              /\ last' = Call("reportError", lineNumber, startColumn, endColumn, "exit",
                              <<>>, "none", <<>>, <<>>, TRUE, file)
    /\ rpc' = "exited"
    /\ calls' = calls + 1
    /\ UNCHANGED <<lexVars, utilVars, content, canOpen, console, stream, attempts, notices>>

\* error_report.cpp 42 and 50-54: ANSI is enabled already: the coloured
\* layout.
ReportColored ==
    /\ rpc = "report"
    /\ calls < MaxCalls
    /\ isAnsiEnabledInConsole(console)
    /\ \E lineNumber \in LineNumbers, startColumn \in Columns, endColumn \in Columns :
          LET file == OpenedStream(canOpen)
              r == readLineFromFile(file, lineNumber, content)
          IN  /\ ~(startColumn > endColumn)
              /\ r.result = "ok"
              /\ last' = Call("reportError", lineNumber, startColumn, endColumn, "ok",
                              r.line, "colored",
                              printColoredError(FilePath, lineNumber, startColumn,
                                                endColumn, r.line, Message),
                              <<>>, FALSE, file)
    /\ calls' = calls + 1
    /\ UNCHANGED <<lexVars, utilVars, rpc, content, canOpen, console, stream, attempts, notices>>

\* error_report.cpp 42-43 and 47-49: ANSI is not enabled and
\* enableAnsiInConsole returns 0: the coloured layout.
ReportColoredAfterEnable ==
    /\ rpc = "report"
    /\ calls < MaxCalls
    /\ ~isAnsiEnabledInConsole(console)
    /\ enableAnsiInConsole(console) = 0
    /\ \E lineNumber \in LineNumbers, startColumn \in Columns, endColumn \in Columns :
          LET file == OpenedStream(canOpen)
              r == readLineFromFile(file, lineNumber, content)
          IN  /\ ~(startColumn > endColumn)
              /\ r.result = "ok"
              /\ last' = Call("reportError", lineNumber, startColumn, endColumn, "ok",
                              r.line, "colored",
                              printColoredError(FilePath, lineNumber, startColumn,
                                                endColumn, r.line, Message),
                              <<>>, FALSE, file)
    /\ console' = ConsoleAfterEnable(console)
    /\ attempts' = attempts + 1
    /\ calls' = calls + 1
    /\ UNCHANGED <<lexVars, utilVars, rpc, content, canOpen, stream, notices>>

\* error_report.cpp 42-46: ANSI is not enabled and enableAnsiInConsole
\* fails: the notice, then the plain layout.
ReportPlain ==
    /\ rpc = "report"
    /\ calls < MaxCalls
    /\ ~isAnsiEnabledInConsole(console)
    /\ enableAnsiInConsole(console) # 0
    /\ \E lineNumber \in LineNumbers, startColumn \in Columns, endColumn \in Columns :
          LET file == OpenedStream(canOpen)
              r == readLineFromFile(file, lineNumber, content)
          IN  /\ ~(startColumn > endColumn)
              /\ r.result = "ok"
              /\ last' = Call("reportError", lineNumber, startColumn, endColumn, "ok",
                              r.line, "plain",
                              printPlainError(FilePath, lineNumber, startColumn,
                                              endColumn, r.line, Message),
                              AnsiNotice, FALSE, file)
    /\ console' = ConsoleAfterEnable(console)
    /\ attempts' = attempts + 1
    /\ notices' = notices + 1
    /\ calls' = calls + 1
    /\ UNCHANGED <<lexVars, utilVars, rpc, content, canOpen, stream>>

\* A caller passes its stream to Utils::readLineFromFile (utils.cpp
\* 1146-1191).
ReadLine ==
    /\ rpc = "read"
    /\ \E lineNum \in LineNumbers :
          LET r == readLineFromFile(stream, lineNum, content)
          IN  /\ last' = Call("readLineFromFile", lineNum, 0, 0, r.result, r.line,
                              "none", <<>>, <<>>, FALSE, stream)
              /\ stream' = r.stream
    /\ UNCHANGED <<lexVars, utilVars, rpc, content, canOpen, console, calls, attempts, notices>>

ReportNext ==
    \/ ReportBadSpan
    \/ ReportReadFailure
    \/ ReportColored
    \/ ReportColoredAfterEnable
    \/ ReportPlain
    \/ ReadLine

SpecReport == ReportInit /\ [][ReportNext]_vars

(***************************************************************************)
(* startMainProccess (main.cpp 22-79): enableAnsiInConsole, reportError on *)
(* the input file, readFileToString of the same file, lex of its text.     *)
(* The calls of main.cpp 34-48 (file association, notification, clearing   *)
(* of the output files) touch nothing of this state.                       *)
(***************************************************************************)
\* The arguments of the reportError call of main.cpp 32.
MainLine == 5

MainStartColumn == 10

MainEndColumn == 14

FourEmptyLines == <<NEWLINE, NEWLINE, NEWLINE, NEWLINE>>

\* The input files: the empty one, those of one character, and those whose
\* fifth line exists: four empty lines and then a short text or one of the
\* named inputs.
MainFiles ==
    StringsOfLen(0) \cup StringsOfLen(1)
    \cup {FourEmptyLines \o t :
              t \in UNION {StringsOfLen(n) : n \in 0..MainTailLen} \cup NamedInputs}

MainInit ==
    /\ LexOff
    /\ UtilIdle
    /\ rpc = "main"
    /\ content \in MainFiles
    /\ canOpen \in BOOLEAN
    /\ console \in Consoles
    /\ stream = Stream(FALSE, 0, FALSE, TRUE)
    /\ calls = 0
    /\ attempts = 0
    /\ notices = 0
    /\ last = NoCall

\* main.cpp 28: Utils::enableAnsiInConsole().
MainEnableAnsi ==
    /\ rpc = "main"
    /\ console' = ConsoleAfterEnable(console)
    /\ attempts' = attempts + 1
    /\ rpc' = "main_report"
    /\ UNCHANGED <<lexVars, utilVars, content, canOpen, stream, calls, notices, last>>

\* main.cpp 32: reportError(inputFilePath, 5, 10, 14, msg), the whole of
\* error_report.cpp 24-55.
MainReportError ==
    /\ rpc = "main_report"
    /\ LET file == OpenedStream(canOpen)
           r == readLineFromFile(file, MainLine, content)
           enabled == isAnsiEnabledInConsole(console)
           plain == ~enabled /\ enableAnsiInConsole(console) # 0
       IN  IF MainStartColumn > MainEndColumn
           THEN /\ last' = Call("reportError", MainLine, MainStartColumn, MainEndColumn,
                                "exit", <<>>, "none", <<>>, <<>>, TRUE, NoCall.entry)
                /\ rpc' = "exited"
                /\ UNCHANGED <<console, attempts, notices>>
           ELSE IF r.result # "ok"
           THEN /\ last' = Call("reportError", MainLine, MainStartColumn, MainEndColumn,
                                "exit", <<>>, "none", <<>>, <<>>, TRUE, file)
                /\ rpc' = "exited"
                /\ UNCHANGED <<console, attempts, notices>>
           ELSE /\ last' = Call("reportError", MainLine, MainStartColumn, MainEndColumn,
                                "ok", r.line, IF plain THEN "plain" ELSE "colored",
                                IF plain
                                THEN printPlainError(FilePath, MainLine, MainStartColumn,
                                                     MainEndColumn, r.line, Message)
                                ELSE printColoredError(FilePath, MainLine, MainStartColumn,
                                                       MainEndColumn, r.line, Message),
                                IF plain THEN AnsiNotice ELSE <<>>, FALSE, file)
                /\ rpc' = "main_read"
                /\ console' = IF enabled THEN console ELSE ConsoleAfterEnable(console)
                /\ attempts' = IF enabled THEN attempts ELSE attempts + 1
                /\ notices' = IF plain THEN notices + 1 ELSE notices
    /\ calls' = calls + 1
    /\ UNCHANGED <<lexVars, utilVars, content, canOpen, stream>>

\* main.cpp 51-61: readFileToString throws when the file cannot be opened,
\* an empty text throws; both are caught at 71 and 1 is returned.  Otherwise
\* lex is called on the text (lexer.cpp 144-149).
MainReadFile ==
    /\ rpc = "main_read"
    /\ IF ~canOpen \/ content = <<>>
       THEN /\ rpc' = "returned1"
            /\ UNCHANGED <<input, pc>>
       ELSE /\ rpc' = "main_lex"
            /\ input' = content
            /\ pc' = "lex"
    /\ UNCHANGED <<i, line, column, commandFound, command, created, saved, freed,
                   returned, reportVarsButRpc, utilVars>>

\* main.cpp 64-69: lex has returned; the tokens are displayed and saved and
\* 0 is returned.
MainReturn ==
    /\ rpc = "main_lex"
    /\ pc = "returned"
    /\ rpc' = "returned0"
    /\ UNCHANGED <<lexVars, utilVars, reportVarsButRpc>>

MainNext ==
    \/ MainEnableAnsi
    \/ MainReportError
    \/ MainReadFile
    \/ MainReturn
    \/ Whitespace
    \/ DetectInteger
    \/ DetectCommand
    \/ SemicolonCase
    \/ StringCase
    \/ StringAbort
    \/ IntegerCase
    \/ ArgumentCase
    \/ Return

SpecMain == MainInit /\ [][MainNext]_vars

(***************************************************************************)
(* The string utilities of utils.cpp: split_string (78-89), wrapText       *)
(* (1011-1035) and formatText (858-879).                                   *)
(***************************************************************************)
npos == -1

\* s.find(delimiter, start) for a 0-based start: the least position at or
\* after start where delimiter occurs in s, or npos.
find(s, delimiter, start) ==
    LET hits == {p \in start..(Len(s) - Len(delimiter)) :
                    SubSeq(s, p + 1, p + Len(delimiter)) = delimiter}
    IN  IF hits = {} THEN npos ELSE CHOOSE p \in hits : \A q \in hits : p <= q

\* start = end + 1, whatever the length of the delimiter.
NextStartByOne(end, delimiter) == end + 1

\* utils.cpp 85: start = end + delimiter.length().
NextStart(end, delimiter) == end + Len(delimiter)

SplitAlphabet == {"a", ","}

RECURSIVE SplitStringsOfLen(_)
SplitStringsOfLen(n) ==
    IF n = 0 THEN {<<>>}
    ELSE {Append(t, c) : t \in SplitStringsOfLen(n - 1), c \in SplitAlphabet}

SplitStrings == UNION {SplitStringsOfLen(n) : n \in 0..MaxSplitLen}

\* The delimiters: the empty one and those of one and two characters.
Delimiters == UNION {SplitStringsOfLen(n) : n \in 0..2}

\* The loop of split_string is followed up to this many elements of tokens:
\* more than any terminating call on these strings produces.
MaxTokens == MaxSplitLen + 2

\* utils.cpp 80-81: split_string has been called.
SplitInit ==
    /\ util \in {[op |-> "split_string", s |-> s, delimiter |-> d, tokens |-> <<>>,
                  start |-> 0, pc |-> "loop", result |-> <<>>] :
                    s \in SplitStrings, d \in Delimiters}
    /\ console = [modeOK |-> FALSE, setOK |-> FALSE, vt |-> FALSE]

\* utils.cpp 82-86: the delimiter is found; one iteration of the loop.
SplitIteration ==
    /\ util.op = "split_string"
    /\ util.pc = "loop"
    /\ Len(util.tokens) < MaxTokens
    /\ LET end == find(util.s, util.delimiter, util.start)
       IN  /\ end # npos
           /\ util' = [util EXCEPT
                          !.tokens = Append(@, SubSeq(util.s, util.start + 1, end)),
                          !.start = NextStart(end, util.delimiter)]
    /\ UNCHANGED <<lexVars, reportVars>>

\* utils.cpp 82 and 87-88: the delimiter is not found; the rest of s is
\* pushed and tokens is returned.
SplitReturn ==
    /\ util.op = "split_string"
    /\ util.pc = "loop"
    /\ find(util.s, util.delimiter, util.start) = npos
    /\ LET tokens == Append(util.tokens, SubSeq(util.s, util.start + 1, Len(util.s)))
       IN  util' = [util EXCEPT !.tokens = tokens, !.result = tokens, !.pc = "done"]
    /\ UNCHANGED <<lexVars, reportVars>>

\* What operator>> takes as white space, among the characters of the model.
isspace(c) == c \in {SPACE, NEWLINE}

WrapAlphabet == {"a", SPACE, NEWLINE}

RECURSIVE WrapTextsOfLen(_)
WrapTextsOfLen(n) ==
    IF n = 0 THEN {<<>>}
    ELSE {Append(t, c) : t \in WrapTextsOfLen(n - 1), c \in WrapAlphabet}

WrapTexts == UNION {WrapTextsOfLen(n) : n \in 0..MaxWrapLen}

\* utils.cpp 1018: the words that `words >> word' extracts from str one
\* after the other: leading white space is skipped, then characters are
\* taken up to the next white space or the end.
RECURSIVE ExtractWords(_)
ExtractWords(str) ==
    LET starts == {k \in 1..Len(str) : ~isspace(str[k])}
    IN  IF starts = {} THEN <<>>
        ELSE LET b == CHOOSE k \in starts : \A j \in starts : k <= j
                 stops == {k \in b..Len(str) : isspace(str[k])}
                 e == IF stops = {} THEN Len(str)
                      ELSE (CHOOSE k \in stops : \A j \in stops : k <= j) - 1
             IN  <<SubSeq(str, b, e)>> \o ExtractWords(SubSeq(str, e + 1, Len(str)))

\* utils.cpp 1018-1032: the loop from the k-th word on.
RECURSIVE wrapLoop(_, _, _, _, _)
wrapLoop(ws, k, wrapped, currentLineLength, lineLength) ==
    IF k > Len(ws) THEN wrapped
    ELSE LET word == ws[k]
             broken == currentLineLength + Len(word) > lineLength
             w1 == IF broken THEN wrapped \o <<NEWLINE>> ELSE wrapped
             c1 == IF broken THEN 0 ELSE currentLineLength
             w2 == IF c1 > 0 THEN w1 \o <<SPACE>> ELSE w1
             c2 == IF c1 > 0 THEN c1 + 1 ELSE c1
         IN  wrapLoop(ws, k + 1, w2 \o word, c2 + Len(word), lineLength)

\* Utils::wrapText (utils.cpp 1011-1035).
wrapText(text, lineLength) == wrapLoop(ExtractWords(text), 1, <<>>, 0, lineLength)

\* Utils::formatText (utils.cpp 865-878), when isAnsiEnabledInConsole().
formatText(text, bold, italic, underline, colorCode) ==
    (IF colorCode # <<>> THEN colorText(<<>>, colorCode) ELSE <<>>)
    \o (IF bold THEN <<ESC, "[", "1", "m">> ELSE <<>>)
    \o (IF italic THEN <<ESC, "[", "3", "m">> ELSE <<>>)
    \o (IF underline THEN <<ESC, "[", "4", "m">> ELSE <<>>)
    \o text \o <<ESC, "[", "0", "m">>

\* The texts and colour codes passed to formatText: no code, a valid one and
\* two that are not valid.
FormatTexts == {<<>>, <<"t">>, <<"t", "x">>}

FormatColorCodes == {<<>>, ColorRed, <<"r", "e", "d">>, <<"#", "f", "f">>}

\* utils.cpp 1013-1017: wrapText has been called.
WrapInit ==
    /\ util \in {[op |-> "wrapText", text |-> t, lineLength |-> n, pc |-> "call",
                  result |-> <<>>] : t \in WrapTexts, n \in 0..MaxLineLength}
    /\ console = [modeOK |-> FALSE, setOK |-> FALSE, vt |-> FALSE]

\* utils.cpp 858: formatText has been called.
FormatInit ==
    /\ util \in {[op |-> "formatText", text |-> t, bold |-> b, italic |-> it,
                  underline |-> u, colorCode |-> c, pc |-> "call", result |-> <<>>] :
                    t \in FormatTexts, b \in BOOLEAN, it \in BOOLEAN, u \in BOOLEAN,
                    c \in FormatColorCodes}
    /\ console \in Consoles

\* A process that calls one of the three utilities.
UtilsInit ==
    /\ LexOff
    /\ rpc = "idle"
    /\ content = <<>>
    /\ canOpen = FALSE
    /\ stream = Stream(FALSE, 0, FALSE, FALSE)
    /\ calls = 0
    /\ attempts = 0
    /\ notices = 0
    /\ last = NoCall
    /\ (SplitInit \/ WrapInit \/ FormatInit)

\* utils.cpp 1011-1035: wrapText returns.
WrapText ==
    /\ util.op = "wrapText"
    /\ util.pc = "call"
    /\ util' = [util EXCEPT !.result = wrapText(util.text, util.lineLength),
                            !.pc = "done"]
    /\ UNCHANGED <<lexVars, reportVars>>

\* utils.cpp 860-863: ANSI is not enabled; runtime_error is thrown.
FormatTextThrows ==
    /\ util.op = "formatText"
    /\ util.pc = "call"
    /\ ~isAnsiEnabledInConsole(console)
    /\ util' = [util EXCEPT !.pc = "thrown"]
    /\ UNCHANGED <<lexVars, reportVars>>

\* utils.cpp 865-878: formatText returns.
FormatText ==
    /\ util.op = "formatText"
    /\ util.pc = "call"
    /\ isAnsiEnabledInConsole(console)
    /\ util' = [util EXCEPT
                   !.result = formatText(util.text, util.bold, util.italic,
                                         util.underline, util.colorCode),
                   !.pc = "done"]
    /\ UNCHANGED <<lexVars, reportVars>>

UtilsNext ==
    \/ SplitIteration
    \/ SplitReturn
    \/ WrapText
    \/ FormatTextThrows
    \/ FormatText

SpecUtils == UtilsInit /\ [][UtilsNext]_vars

(***************************************************************************)
(* Checks of the model itself.                                             *)
(***************************************************************************)
TokenTypes ==
    {"TK_Identifier", "TK_Argument", "TK_String", "TK_Semicolon", "TK_Integer"}

TypeOK ==
    /\ pc \in {"lex", "returned", "exited", "off"}
    /\ i \in 0..(Len(input) + 1)
    /\ line \in 1..MaxLine
    /\ column \in 1..(2 * Len(input) + 1)
    /\ commandFound \in BOOLEAN
    /\ \A k \in 1..Len(created) : created[k].type \in TokenTypes
    /\ Len(command) <= Len(created)
    /\ command = SubSeq(created, Len(created) - Len(command) + 1, Len(created))

DeadBranches == pc = "lex" => Branch \notin {"space_after_command", "newline"}

(***************************************************************************)
(* Vocabulary of the properties.                                           *)
(***************************************************************************)
InputXEquals5 == <<"x", " ", "=", " ", "5", ";">>
InputEqEqEq == <<"=", "=", " ", "=">>

\* The kind and value of each token of a sequence.
KindsAndValues(toks) == [k \in 1..Len(toks) |-> <<toks[k].type, toks[k].value>>]

\* (line, start_column) of a is at or before that of b.
PositionLeq(a, b) ==
    a.line < b.line \/ (a.line = b.line /\ a.start_column <= b.start_column)

PositionsNonDecreasing(toks) ==
    \A k \in 1..(Len(toks) - 1) : PositionLeq(toks[k], toks[k + 1])

\* Tokens on the same line have disjoint column ranges.
NoOverlap(toks) ==
    \A j, k \in 1..Len(toks) :
        (j < k /\ toks[j].line = toks[k].line) =>
            (toks[j].end_column < toks[k].start_column
             \/ toks[k].end_column < toks[j].start_column)

RECURSIVE Flatten(_)
Flatten(batches) ==
    IF batches = <<>> THEN <<>> ELSE Head(batches) \o Flatten(Tail(batches))

\* The number of newline characters among the first n characters of str.
RECURSIVE NewlinesIn(_, _)
NewlinesIn(str, n) ==
    IF n = 0 THEN 0
    ELSE NewlinesIn(str, n - 1) + (IF str[n] = NEWLINE THEN 1 ELSE 0)

\* The number of characters among the first n of str that follow the last
\* newline among them (all n when there is none).
RECURSIVE SinceNewline(_, _)
SinceNewline(str, n) ==
    IF n = 0 \/ str[n] = NEWLINE THEN 0 ELSE SinceNewline(str, n - 1) + 1

\* The length in the source text of the lexeme of a token: a string literal
\* has its two quotes around the value, every other token is its value.
LexemeLength(tok) ==
    IF tok.type = "TK_String" THEN Len(tok.value) + 2 ELSE Len(tok.value)

\* The cursor is at a quote that opens a string literal which has a closing
\* quote: parse_string returns.
AtTerminatedString ==
    pc = "lex" /\ Branch = "string" /\ ~parse_string_exits(i + 1, input)

\* The cursor is at a quote that opens a string literal with no closing quote.
AtUnterminatedString ==
    pc = "lex" /\ Branch = "string" /\ parse_string_exits(i + 1, input)

(***************************************************************************)
(* The claims.                                                             *)
(***************************************************************************)

\* C1: lex("x = 5;") returns exactly Identifier("x"), EqualsSign("="),
\* Integer("5"), Semicolon(";") in that order, with (line, start_column)
\* non-decreasing along the returned sequence.
C1_XEquals5FourTokens ==
    (input = InputXEquals5 /\ pc = "returned") =>
        /\ KindsAndValues(returned) =
               << <<"TK_Identifier", <<"x">> >>, <<"TK_EqualsSign", <<"=">> >>,
                  <<"TK_Integer", <<"5">> >>, <<"TK_Semicolon", <<";">> >> >>
        /\ PositionsNonDecreasing(returned)

\* C2: when lex returns, the returned vector holds every token created
\* during the call, in creation order.
C2_ReturnedHoldsEveryCreatedToken ==
    pc = "returned" => returned = created

\* C3: every iteration of the loop of lex that does not abort advances the
\* cursor i by at least one character (so the iterations are bounded by the
\* input length and lex terminates).
C3_EveryIterationAdvances ==
    [][(pc = "lex" /\ pc' = "lex") => i' > i]_vars

\* C4: at a string literal that has a closing quote, lex emits exactly one
\* String token, consumes the closing quote and resumes at the character
\* after it, without aborting: the closing quote is not left to open
\* another literal.
C4_ClosingQuoteConsumed ==
    [][AtTerminatedString =>
          /\ pc' = "lex"
          /\ Len(created') = Len(created) + 1
          /\ created'[Len(created')].type = "TK_String"
          /\ i' >= parse_string_scan(i + 1, input) + 1]_vars

\* C5: at a string literal with no closing quote the scan aborts: no token
\* is produced for the string or after it, and control comes back to the
\* caller of lex with the abort signalled (pc "aborted"), not only a log line.
C5_AbortSignalledToCaller ==
    [][AtUnterminatedString =>
          /\ created' = created
          /\ pc' = "aborted"]_vars

\* C6: when the scan has aborted on an unterminated string, every token
\* emitted earlier in the call has been delivered unchanged: the caller gets
\* no vector from a call that aborts, so each is in a vector passed to
\* save_command.
C6_AbortKeepsEarlierTokens ==
    pc = "exited" => Flatten(saved) = created

\* C7: at every point of a lex call, line is 1 plus the number of newlines
\* consumed and column is 1 plus the number of characters consumed since the
\* most recent newline.
C7_LineColumnBookkeeping ==
    pc \in {"lex", "returned"} =>
        /\ line = 1 + NewlinesIn(input, i)
        /\ column = 1 + SinceNewline(input, i)

\* C8: for every token emitted, end_column = start_column + lexeme length
\* - 1, end_column >= start_column >= 1 and line >= 1.
C8_EndColumnFromLexeme ==
    \A k \in 1..Len(created) :
        LET tok == created[k]
        IN  /\ tok.end_column = tok.start_column + LexemeLength(tok) - 1
            /\ tok.end_column >= tok.start_column
            /\ tok.start_column >= 1
            /\ tok.line >= 1

\* C9: over the tokens emitted by one lex call, (line, start_column) is
\* non-decreasing in emission order and tokens on the same line have
\* disjoint column ranges.
C9_OrderedAndDisjoint ==
    PositionsNonDecreasing(created) /\ NoOverlap(created)

\* Three tokens have been emitted, the last two on the same line, and lex
\* has returned.
C9_Witness ==
    /\ pc = "returned"
    /\ Len(created) >= 3
    /\ \E k \in 1..(Len(created) - 1) :
           /\ created[k].line = created[k + 1].line
           /\ created[k].end_column + 1 = created[k + 1].start_column

\* C10: lex("== =") yields ComparisonOperator("==") followed by
\* EqualsSign("="), "==" not being split.
C10_EqEqIsComparisonOperator ==
    (input = InputEqEqEq /\ pc \in {"returned", "exited"}) =>
        KindsAndValues(created) =
            << <<"TK_ComparisonOperator", <<"=", "=">> >>, <<"TK_EqualsSign", <<"=">> >> >>

\* C11: lex("3.1.4") emits a Float token with value "3.1", leaves the
\* second '.' to the following token and returns without aborting.
C11_FloatThenContinue ==
    (input = <<"3", ".", "1", ".", "4">> /\ pc \in {"returned", "exited"}) =>
        /\ pc = "returned"
        /\ Len(created) >= 2
        /\ created[1].type = "TK_Float"
        /\ created[1].value = <<"3", ".", "1">>
        /\ created[2].value[1] = "."

\* The characters that start an identifier, a number, a string, an operator
\* or a punctuation token in the token kinds of lexer.h 19-40, among the
\* characters of the inputs; every other character that is not a space or a
\* newline starts no token.
TokenStartChars ==
    {"x", "a", "b", "c"} \cup Digits \cup {QUOTE, "=", SEMI}

StartsNoToken(c) == c \notin TokenStartChars \cup {SPACE, NEWLINE}

\* C12: at a character that starts no token, lex emits an Unknown token
\* whose value is that one character, advances by exactly one character and
\* goes on scanning.
C12_UnknownCharacterToken ==
    [][(pc = "lex" /\ i < Len(input) /\ StartsNoToken(input[(i + 1)]))
          => /\ pc' = "lex"
             /\ i' = i + 1
             /\ created' = Append(created,
                    Token("TK_Unknown", <<input[(i + 1)]>>, line, column, column))]_vars

\* The number of elements of seq that satisfy Test.
CountIf(seq, Test(_)) == Len(SelectSeq(seq, Test))

IsSemicolonChar(c) == c = SEMI
IsSemicolonToken(tok) == tok.type = "TK_Semicolon"
HasNoQuote(str) == \A k \in 1..Len(str) : str[k] # QUOTE

\* C13: every ';' of the input outside a string literal produces exactly one
\* Semicolon token with value ";" and start_column = end_column, whatever
\* token precedes it (stated on inputs without a quote, when lex has
\* returned).
C13_EverySemicolonIsAToken ==
    (pc = "returned" /\ HasNoQuote(input)) =>
        /\ CountIf(created, IsSemicolonToken) = CountIf(input, IsSemicolonChar)
        /\ \A k \in 1..Len(created) :
               IsSemicolonToken(created[k]) =>
                   /\ created[k].value = <<SEMI>>
                   /\ created[k].start_column = created[k].end_column

\* The lines of a text: the pieces between its newline characters.
RECURSIVE SplitLines(_)
SplitLines(str) ==
    IF \A k \in 1..Len(str) : str[k] # NEWLINE THEN <<str>>
    ELSE LET n == CHOOSE k \in 1..Len(str) :
                      str[k] = NEWLINE /\ \A j \in 1..(k - 1) : str[j] # NEWLINE
         IN  <<SubSeq(str, 1, n - 1)>> \o SplitLines(SubSeq(str, n + 1, Len(str)))

\* The slice of the source that a token's line and column span locate:
\* empty where the source has no such line or column.
SourceSlice(str, tok) ==
    LET ls == SplitLines(str)
    IN  IF tok.line \notin 1..Len(ls) THEN <<>>
        ELSE LET l == ls[tok.line]
                 lastCol == IF tok.end_column < Len(l) THEN tok.end_column ELSE Len(l)
             IN  IF tok.start_column < 1 \/ tok.start_column > lastCol THEN <<>>
                 ELSE SubSeq(l, tok.start_column, lastCol)

RECURSIVE ConcatSlices(_, _)
ConcatSlices(str, toks) ==
    IF toks = <<>> THEN <<>>
    ELSE SourceSlice(str, Head(toks)) \o ConcatSlices(str, Tail(toks))

IsNotBlank(c) == c # SPACE /\ c # NEWLINE

\* The input without its spaces and newlines.
NonWhitespace(str) == SelectSeq(str, IsNotBlank)

\* No string literal and no number with a '.'.
FreeOfStringsAndDots(str) == \A k \in 1..Len(str) : str[k] \notin {QUOTE, "."}

\* C14: for an input without string literal and malformed number, the
\* source slices of the emitted tokens, concatenated in emission order, are
\* the input without its spaces and newlines.
C14_SlicesReconstructInput ==
    (pc = "returned" /\ FreeOfStringsAndDots(input)) =>
        ConcatSlices(input, created) = NonWhitespace(input)

(***************************************************************************)
(* Vocabulary of the claims about the renderer.                            *)
(***************************************************************************)
\* The last call was a reportError that returned 0.
ReportedOK == last.op = "reportError" /\ last.result = "ok"

\* The text in front of the source line and of the underline: "|    " in
\* the coloured layout, "    " in the plain one.
IndentOf(layout) ==
    IF layout = "colored" THEN <<"|", " ", " ", " ", " ">> ELSE <<" ", " ", " ", " ">>

\* Where the source line is among the lines written: the coloured layout
\* begins with a newline and has two header lines, the plain one has two
\* header lines.
SourceLineIndex(layout) == IF layout = "colored" THEN 4 ELSE 3

HasPrefix(str, prefix) ==
    Len(str) >= Len(prefix) /\ SubSeq(str, 1, Len(prefix)) = prefix

\* C15: after every successful reportError call with 1 <= startColumn <=
\* endColumn, in the coloured and in the plain layout alike, the line under
\* the source line is the indent of the source line, then exactly
\* startColumn - 1 spaces, then exactly endColumn - startColumn carets and
\* nothing else.
C15_UnderlineLine ==
    (ReportedOK /\ 1 <= last.startColumn /\ last.startColumn <= last.endColumn) =>
        LET written == SplitLines(last.out)
            indent == IndentOf(last.layout)
            k == SourceLineIndex(last.layout)
            underline == written[k + 1]
            n == Len(indent)
        IN  /\ Len(written) > k
            /\ HasPrefix(written[k], indent)
            /\ HasPrefix(underline, indent)
            /\ Len(underline) = n + (last.startColumn - 1)
                                  + (last.endColumn - last.startColumn)
            /\ \A j \in 1..(last.startColumn - 1) : underline[n + j] = " "
            /\ \A j \in last.startColumn..(last.endColumn - 1) : underline[n + j] = "^"

\* A coloured diagnostic whose span starts after column 1 and is not empty.
C15_Witness ==
    /\ ReportedOK
    /\ last.layout = "colored"
    /\ 1 < last.startColumn
    /\ last.startColumn < last.endColumn

\* A plain diagnostic with the two columns equal: no caret.
C15_WitnessPlainEmptySpan ==
    /\ ReportedOK
    /\ last.layout = "plain"
    /\ last.startColumn = last.endColumn

\* C16: a reportError call with startColumn > endColumn fails and writes
\* nothing to any output: no diagnostic and no notice on std::cout, nothing
\* on std::cerr.
C16_BadSpanWritesNothing ==
    (last.op = "reportError" /\ last.startColumn > last.endColumn) =>
        /\ last.result = "exit"
        /\ last.out = <<>>
        /\ last.notice = <<>>
        /\ ~last.err

\* The number of lines of a text, with or without a final newline.
NumLines(text) ==
    IF text = <<>> THEN 0
    ELSE NewlinesIn(text, Len(text)) + (IF text[Len(text)] = NEWLINE THEN 0 ELSE 1)

\* C17: a reportError or readLineFromFile call with a line number greater
\* than the number of lines of the file fails, and writes no header, source
\* line, underline or message.
C17_PastLastLineFails ==
    (last.op \in {"reportError", "readLineFromFile"}
     /\ last.lineNumber > NumLines(content)) =>
        /\ last.result # "ok"
        /\ last.out = <<>>

\* C18: readLineFromFile, on an open stream on which no operation has
\* failed, with lineNum between 1 and the number of lines of the file returns
\* exactly line lineNum of the file, and a successful reportError prints
\* that line as its source line; lineNum = 0 on an open stream ends with
\* invalid_argument and a stream that is not open with runtime_error, the
\* stream left as it was.
C18_ReadsExactlyTheLine ==
    /\ (last.op = "readLineFromFile" /\ last.entry.is_open /\ ~fail(last.entry)
        /\ last.lineNumber \in 1..NumLines(content)) =>
            /\ last.result = "ok"
            /\ last.line = SplitLines(content)[last.lineNumber]
    /\ (ReportedOK /\ last.lineNumber \in 1..NumLines(content)) =>
            LET src == SplitLines(content)[last.lineNumber]
                shown == IF last.layout = "colored" THEN colorText(src, ColorGreen) ELSE src
            IN  SplitLines(last.out)[SourceLineIndex(last.layout)]
                    = IndentOf(last.layout) \o shown
    /\ (last.op = "readLineFromFile" /\ last.entry.is_open /\ last.lineNumber = 0) =>
            last.result = "invalid_argument" /\ stream = last.entry
    /\ (last.op = "readLineFromFile" /\ ~last.entry.is_open) =>
            last.result = "runtime_error" /\ stream = last.entry

\* C19: in one process the attempt to enable styling is made at most once.
C19_EnableAttemptedAtMostOnce == attempts <= 1

\* C20: in one process the notice that styling is not enabled is written at
\* most once.
C20_NoticeWrittenAtMostOnce == notices <= 1

\* C21: after every readLineFromFile call, however it ends (return,
\* out_of_range, runtime_error, invalid_argument), the read position of the
\* stream is the position it had when the function was entered.
C21_PositionRestored ==
    (last.op = "readLineFromFile") => stream.pos = last.entry.pos

\* A call on a stream in the middle of the file that ends with out_of_range.
C21_Witness ==
    /\ last.op = "readLineFromFile"
    /\ last.result = "out_of_range"
    /\ last.entry.pos > 0
    /\ last.entry.pos < Len(content)

\* A call on a stream in the middle of the file that returns a line.
C21_WitnessReturn ==
    /\ last.op = "readLineFromFile"
    /\ last.result = "ok"
    /\ last.lineNumber >= 2
    /\ last.entry.pos > 0
    /\ last.entry.pos < Len(content)

\* A call on an open stream that ends with runtime_error.
C21_WitnessReadError ==
    /\ last.op = "readLineFromFile"
    /\ last.result = "runtime_error"
    /\ last.entry.is_open

\* C22: a reportError call that fails comes back to its caller: the process
\* is still running afterwards, so that startMainProccess goes on to
\* readFileToString and lex.
C22_FailedReportReturnsToCaller ==
    (last.op = "reportError" /\ last.result = "exit") => rpc # "exited"

\* A text without its styling sequences: each escape character is dropped
\* together with what follows it up to and including the next "m".
\* The least element of a non-empty set of numbers.
Least(set) == CHOOSE k \in set : \A j \in set : k <= j

RECURSIVE StripStyling(_)
StripStyling(str) ==
    LET escs == {k \in 1..Len(str) : str[k] = ESC}
    IN  IF escs = {} THEN str
        ELSE LET e == Least(escs)
                 ms == {k \in (e + 1)..Len(str) : str[k] = "m"}
             IN  IF ms = {} THEN SubSeq(str, 1, e - 1)
                 ELSE SubSeq(str, 1, e - 1)
                      \o StripStyling(SubSeq(str, Least(ms) + 1, Len(str)))

IsDigitChar(c) == \E k \in 1..10 : DigitChars[k] = c

\* The numbers written in a text, in order: its maximal runs of digits.
RECURSIVE NumbersIn(_)
NumbersIn(str) ==
    LET ds == {k \in 1..Len(str) : IsDigitChar(str[k])}
    IN  IF ds = {} THEN <<>>
        ELSE LET d == Least(ds)
                 stops == {k \in d..Len(str) : ~IsDigitChar(str[k])}
                 n == IF stops = {} THEN Len(str) ELSE Least(stops) - 1
             IN  <<SubSeq(str, d, n)>> \o NumbersIn(SubSeq(str, n + 1, Len(str)))

HasSuffix(str, suffix) ==
    Len(str) >= Len(suffix)
    /\ SubSeq(str, Len(str) - Len(suffix) + 1, Len(str)) = suffix

\* C23: what a successful reportError writes is, in both layouts and with
\* the styling sequences of the coloured one left out: header lines that end
\* with path:line:startColumn and carry the line number, the start column
\* and the end column; then the source line as read from the file after the
\* indent; then the underline; then, after it, the message; nothing but
\* empty lines follows.  The plain layout and its notice hold no escape
\* character.
C23_SameStructureNoStylingInPlain ==
    ReportedOK =>
        LET written == SplitLines(StripStyling(last.out))
            indent == IndentOf(last.layout)
            k == SourceLineIndex(last.layout)
            L == to_string(last.lineNumber)
            S == to_string(last.startColumn)
            E == to_string(last.endColumn)
            msgLines == {j \in 1..Len(written) : HasSuffix(written[j], Message)
                                                  /\ written[j] # <<>>}
        IN  /\ Len(written) > k + 1
            /\ HasSuffix(written[k - 2], FilePath \o <<":">> \o L \o <<":">> \o S)
            /\ NumbersIn(written[k - 2]) = <<L, S>>
            /\ NumbersIn(written[k - 1]) = <<L, S, E>>
            /\ written[k] = indent \o last.line
            /\ \A j \in (Len(indent) + 1)..Len(written[k + 1]) :
                    written[k + 1][j] \in {" ", "^"}
            /\ \E j \in msgLines :
                    /\ j > k + 1
                    /\ \A n \in (k + 2)..Len(written) : n # j => written[n] \in {<<>>, indent}
            /\ last.layout = "plain" =>
                    \A j \in 1..Len(last.notice \o last.out) :
                        (last.notice \o last.out)[j] # ESC

\* A plain diagnostic for a source line that is not empty.
C23_Witness ==
    /\ ReportedOK
    /\ last.layout = "plain"
    /\ last.line # <<>>
    /\ last.notice # <<>>

\* A coloured diagnostic for a source line that is not empty.
C23_WitnessColored ==
    /\ ReportedOK
    /\ last.layout = "colored"
    /\ last.line # <<>>

(***************************************************************************)
(* Vocabulary of the claims about the string utilities.                    *)
(***************************************************************************)
SplitDone == util.op = "split_string" /\ util.pc = "done"

\* The 0-based positions of the occurrences of d in str that a scan from
\* position p finds from left to right without overlap (d not empty).
RECURSIVE Occurrences(_, _, _)
Occurrences(str, d, p) ==
    IF p + Len(d) > Len(str) THEN <<>>
    ELSE IF SubSeq(str, p + 1, p + Len(d)) = d
    THEN <<p>> \o Occurrences(str, d, p + Len(d))
    ELSE Occurrences(str, d, p + 1)

\* The elements of seq with d between each two.
RECURSIVE Join(_, _)
Join(seq, d) ==
    IF seq = <<>> THEN <<>>
    ELSE IF Len(seq) = 1 THEN seq[1]
    ELSE seq[1] \o d \o Join(Tail(seq), d)

\* C24: split_string(s, "") terminates and returns [s]: each iteration of
\* its loop either ends the call or moves start forward, and a call that has
\* returned has returned the one-element vector [s].
C24_EmptyDelimiterTerminates ==
    [][(util.op = "split_string" /\ util.delimiter = <<>> /\ util' # util) =>
          \/ util'.pc = "done" /\ util'.result = <<util.s>>
          \/ util'.pc = "loop" /\ util'.start > util.start]_vars

C25_WitnessEmptyString ==
    /\ SplitDone
    /\ util.delimiter # <<>>
    /\ util.s = <<>>

WrapDone == util.op = "wrapText" /\ util.pc = "done"

\* For each word of str, in order, the number of the line of str it is on.
WordLines(str) ==
    LET ls == SplitLines(str)
        Count(n) == Len(ExtractWords(ls[n]))
        Before(n) == LET RECURSIVE Sum(_)
                         Sum(m) == IF m = 0 THEN 0 ELSE Sum(m - 1) + Count(m)
                     IN  Sum(n)
    IN  [k \in 1..Before(Len(ls)) |->
            CHOOSE n \in 1..Len(ls) : Before(n - 1) < k /\ k <= Before(n)]

\* C26: no line of wrapText(text, lineLength) is longer than lineLength
\* unless it is a single word longer than lineLength, and two words that a
\* line break separates in text are on different lines of the result.
C26_WrappedLinesFitAndBreaksKept ==
    WrapDone =>
        LET ls == SplitLines(util.result)
            before == WordLines(util.text)
            after == WordLines(util.result)
        IN  /\ \A n \in 1..Len(ls) :
                  \/ Len(ls[n]) <= util.lineLength
                  \/ Len(ExtractWords(ls[n])) = 1 /\ ExtractWords(ls[n])[1] = ls[n]
            /\ Len(after) = Len(before)
            /\ \A k \in 1..(Len(before) - 1) :
                  before[k] < before[k + 1] => after[k] < after[k + 1]

FormatDone == util.op = "formatText" /\ util.pc = "done"

ResetSequence == <<ESC, "[", "0", "m">>

\* The escape sequences of the options selected, in the order bold, italic,
\* underline.
OptionSequences(bold, italic, underline) ==
    (IF bold THEN <<ESC, "[", "1", "m">> ELSE <<>>)
    \o (IF italic THEN <<ESC, "[", "3", "m">> ELSE <<>>)
    \o (IF underline THEN <<ESC, "[", "4", "m">> ELSE <<>>)

Contains(str, sub) ==
    \E k \in 0..(Len(str) - Len(sub)) : SubSeq(str, k + 1, k + Len(sub)) = sub

\* C27: formatText with an empty or invalid colorCode returns the sequences
\* of the selected options, then text, then the reset sequence and nothing
\* else; with a valid colorCode what precedes text in the result holds no
\* reset sequence.
C27_NoColourOrColourInEffect ==
    FormatDone =>
        LET res == util.result
            head == SubSeq(res, 1, Len(res) - Len(util.text) - Len(ResetSequence))
        IN  IF util.colorCode = <<>> \/ ~isValidHexColor(util.colorCode)
            THEN res = OptionSequences(util.bold, util.italic, util.underline)
                       \o util.text \o ResetSequence
            ELSE ~Contains(head, ResetSequence)

\* The character at 0-based position p of the input begins a line's first
\* word: only spaces lie between it and the preceding newline or the
\* beginning of the input.
FirstWordOfLineAt(p) ==
    /\ p < Len(input)
    /\ input[p + 1] \notin {SPACE, NEWLINE}
    /\ \E b \in 0..p :
          /\ (b = 0 \/ input[b] = NEWLINE)
          /\ \A k \in (b + 1)..p : input[k] = SPACE

\* C28: a step of lex whose last consumed character is a newline leaves
\* commandFound false, and a token created for the first word of a line is
\* never an Argument token.
C28_NewLineStartsWithCommand ==
    [][(pc = "lex") =>
          /\ (i' > i /\ input[i'] = NEWLINE) => commandFound' = FALSE
          /\ (Len(created') > Len(created) /\ FirstWordOfLineAt(i)) =>
                created'[Len(created')].type # "TK_Argument"]_vars

\* C29: when lex has returned, the vectors passed to save_command,
\* concatenated in call order, are the tokens created during the call in
\* creation order: each was passed exactly once.
C29_SavedBatchesAreCreatedTokens ==
    pc = "returned" => Flatten(saved) = created

\* A call that returns after passing two vectors to save_command.
C29_Witness ==
    /\ pc = "returned"
    /\ Len(saved) >= 2
    /\ Len(created) >= 3

\* The index in `created' of the k-th token of the returned vector: the
\* vector holds the last tokens created.
ReturnedIndex(k) == Len(created) - Len(returned) + k

\* C30: no token of the vector that lex returns has a value that lex has
\* freed.  (Each value is freed at most once: `freed' gains an index only in
\* the loop of lexer.cpp 304-310, which visits each token once.)
C30_ReturnedTokensNotFreed ==
    pc = "returned" => \A k \in 1..Len(returned) : ReturnedIndex(k) \notin freed

====
